---- MODULE Spec2Model ----
(***************************************************************************)
(* Model of the DWD pollen sensor (sensor.py): DwdPollenApi.get_exposure,  *)
(* DwdPollenSensor.update under @Throttle(MIN_TIME_BETWEEN_UPDATES), and   *)
(* the helpers __find_partregion, __calculate_level, __get_description.    *)
(*                                                                         *)
(* Python values are represented as follows.  A dict is a function whose   *)
(* DOMAIN is the set of keys present, so d[k] with k \notin DOMAIN d is a  *)
(* KeyError.  None is the empty sequence << >> and a present value v is    *)
(* <<v>> (for _state, for the fetch result and for the partregion that     *)
(* __find_partregion returns).  A datetime is [day, minute]; .date() is    *)
(* its day.                                                                *)
(***************************************************************************)
EXTENDS Integers, Sequences, FiniteSets, TLC

VARIABLES
    partregion_id,  \* self._partregion_id
    pollen_type,    \* self._pollen_type
    state,          \* self._state: << >> (None) or <<percentage>>
    attributes,     \* self._attributes
    pc,             \* position of the thread running update()
    result,         \* local `result` of update(): << >> (None) or <<document>>
    exposure,       \* local `exposure` of update()
    today,          \* local `today` of update(), as a date (a day number)
    called,         \* which helpers the try block of the last update() reached
    outcome,        \* how the last body of update() ended: none, returned, raised
    fetched,        \* kind of the response the last get_exposure() met ("none" before it)
    last_call,      \* what the Throttle wrapper did with the last call: none, run, busy, early
    last_run,       \* Throttle's timestamp of the last completed run: << >> or <<minute>>
    now,            \* the wall clock, in minutes
    writes          \* visible changes of <<state, attributes>> made by the running body

vars == <<partregion_id, pollen_type, state, attributes, pc, result, exposure, today, called,
          outcome,
          fetched, last_call, last_run, now, writes>>

-----------------------------------------------------------------------------
(* Bounds *)

MaxRegions == 2         \* longest `content` list of a fetched document
MaxClockSteps == 3      \* how many times the clock advances

-----------------------------------------------------------------------------
(* Constants of sensor.py *)

\* timedelta(seconds=60) in place of timedelta(minutes=60)
MinTimeInSeconds == 60 \div 60

MIN_TIME_BETWEEN_UPDATES == 60

POLLEN_TYPES == {"ambrosia", "grass", "tree"}

ATTR_DESCRIPTION == "description"
ATTR_LAST_UPDATE == "last_update"
ATTR_NEXT_UPDATE == "next_update"
ATTR_PARTREGION_NAME == "partregion_name"
ATTR_REGION_NAME == "region_name"
ATTR_ATTRIBUTION == "attribution"
ATTRIBUTION == "Data provided by Deutscher Wetterdienst"

-----------------------------------------------------------------------------
(* Python dicts and None *)

None == << >>
Some(v) == <<v>>
EmptyDict == << >>

Get(d, k, default) == IF k \in DOMAIN d THEN d[k] ELSE default
Put(d, k, v) == [x \in DOMAIN d \cup {k} |-> IF x = k THEN v ELSE d[x]]
Drop(d, k) == [x \in DOMAIN d \ {k} |-> d[x]]

-----------------------------------------------------------------------------
(* __calculate_level *)

pollen_mapping ==
    [ambrosia |-> <<"Ambrosia">>,
     grass    |-> <<"Graeser">>,
     tree     |-> <<"Beifuss", "Birke", "Erle", "Esche", "Hasel", "Roggen">>]

level_mapping ==
    ("0" :> 0) @@ ("0-1" :> 1) @@ ("1" :> 2) @@ ("1-2" :> 3) @@
    ("2" :> 4) @@ ("2-3" :> 5) @@ ("3" :> 6)

RECURSIVE MaxFrom(_, _, _)
\* max(pollen_levels, default=-1): a left-to-right scan keeping the largest
MaxFrom(levels, i, best) ==
    IF i > Len(levels) THEN best
    ELSE MaxFrom(levels, i + 1, IF levels[i] > best THEN levels[i] ELSE best)

PyMax(levels, default) ==
    IF Len(levels) = 0 THEN default ELSE MaxFrom(levels, 2, levels[1])

\* the return statement inside the for loop: only the first species counts
calculate_level_first(pollen_list, pollen_category, day) ==
    LET species == Get(pollen_mapping, pollen_category, << >>)
    IN  IF Len(species) = 0 THEN [error |-> "", level |-> -1]
        ELSE IF species[1] \notin DOMAIN pollen_list \/ day \notin DOMAIN pollen_list[species[1]]
             THEN [error |-> "KeyError", level |-> -1]
        ELSE [error |-> "", level |-> Get(level_mapping, pollen_list[species[1]][day], -1)]

\* The result is [error, level]: error is "KeyError" when a species of the
\* category or the day is not a key of the forecast.
calculate_level(pollen_list, pollen_category, day) ==
    LET species == Get(pollen_mapping, pollen_category, << >>)
        missing(s) == s \notin DOMAIN pollen_list \/ day \notin DOMAIN pollen_list[s]
        pollen_levels ==
            [i \in 1..Len(species) |-> Get(level_mapping, pollen_list[species[i]][day], -1)]
    IN  IF \E i \in 1..Len(species) : missing(species[i])
        THEN [error |-> "KeyError", level |-> -1]
        ELSE [error |-> "", level |-> PyMax(pollen_levels, -1)]

-----------------------------------------------------------------------------
(* __get_description *)

description_mapping ==
    (0 :> "no level of exposure") @@
    (1 :> "no to low level of exposure") @@
    (2 :> "low level of exposure") @@
    (3 :> "low to medium level of exposure") @@
    (4 :> "medium level of exposure") @@
    (5 :> "medium to high level exposure") @@
    (6 :> "high level of exposure")

get_description(level) == Get(description_mapping, level, "unknown level of exposure")

-----------------------------------------------------------------------------
(* round(level / 6 * 100) *)

\* Python's round() of the quotient n / d (d > 0): nearest integer, ties to even
PyRound(n, d) ==
    LET q == n \div d
        r == n % d
    IN  IF 2 * r < d THEN q
        ELSE IF 2 * r > d THEN q + 1
        ELSE IF q % 2 = 0 THEN q ELSE q + 1

\* int(level / 6 * 100): truncation in place of rounding
PercentageTruncated(level) == (level * 100) \div 6

Percentage(level) == PyRound(level * 100, 6)

-----------------------------------------------------------------------------
(* __find_partregion *)

RECURSIVE FindFrom(_, _, _)
\* The for loop: [error, value]; value is None when the loop falls through.
FindFrom(partregion_list, id, i) ==
    IF i > Len(partregion_list) THEN [error |-> "", value |-> None]
    ELSE IF "partregion_id" \notin DOMAIN partregion_list[i]
         THEN [error |-> "KeyError", value |-> None]
    ELSE IF partregion_list[i]["partregion_id"] = id
         THEN [error |-> "", value |-> Some(partregion_list[i])]
    ELSE FindFrom(partregion_list, id, i + 1)

RECURSIVE FindBack(_, _, _)
FindBack(partregion_list, id, i) ==
    IF i < 1 THEN [error |-> "", value |-> None]
    ELSE IF "partregion_id" \notin DOMAIN partregion_list[i]
         THEN [error |-> "KeyError", value |-> None]
    ELSE IF partregion_list[i]["partregion_id"] = id
         THEN [error |-> "", value |-> Some(partregion_list[i])]
    ELSE FindBack(partregion_list, id, i - 1)

\* the loop keeps the last sub-region of the id instead of returning the first
find_partregion_last(partregion_list, id) ==
    FindBack(partregion_list, id, Len(partregion_list))

find_partregion(partregion_list, id) ==
    FindFrom(partregion_list, id, 1)

-----------------------------------------------------------------------------
(* DwdPollenApi.get_exposure *)

\* A response is [kind, json]: kind "transport" (requests.get raised), "status"
\* (raise_for_status raised), "invalid_json" (response.json raised ValueError)
\* or "ok" with the parsed body.
FailureKinds == {"transport", "status", "invalid_json"}

get_exposure(response) ==
    IF response.kind \in FailureKinds THEN None ELSE Some(response.json)

\* `if result:` - None and the empty dict are falsy
Truthy(res) == IF res = None THEN FALSE ELSE DOMAIN res[1] # {}

-----------------------------------------------------------------------------
(* The try block of update(), lines 127-165 *)

NoCalls == [lookup |-> FALSE, day |-> "none"]

\* yesterday and the day before computed forwards instead of backwards
DayKeyForwards(last_update, date) ==
    LET yesterday == date + 1
        before_yesterday == yesterday + 1
    IN  IF last_update.day = date THEN "today"
        ELSE IF last_update.day = yesterday THEN "tomorrow"
        ELSE IF last_update.day = before_yesterday THEN "dayafter_to"
        ELSE "none"

\* The day-key of a document's last_update date, "none" in the else branch
DayKey(last_update, date) ==
    LET yesterday == date - 1
        before_yesterday == yesterday - 1
    IN  IF last_update.day = date THEN "today"
        ELSE IF last_update.day = yesterday THEN "tomorrow"
        ELSE IF last_update.day = before_yesterday THEN "dayafter_to"
        ELSE "none"

\* The result is [exposure, error, called]: exposure as the block leaves it,
\* error "" (ran to its end), "KeyError" (caught by the except clause) or
\* "TypeError" (subscripting None; not caught), and the helpers it reached.
TryBlock(doc, id, category, date) ==
    LET Stop(e, err, c) == [exposure |-> e, error |-> err, called |-> c]
    IN
    IF "last_update" \notin DOMAIN doc THEN Stop(EmptyDict, "KeyError", NoCalls)
    ELSE IF "next_update" \notin DOMAIN doc THEN Stop(EmptyDict, "KeyError", NoCalls)
    ELSE IF "content" \notin DOMAIN doc THEN Stop(EmptyDict, "KeyError", NoCalls)
    ELSE
    LET found == find_partregion(doc["content"], id)
        partregion == found.value
        day == DayKey(doc["last_update"], date)
        looked == [NoCalls EXCEPT !.lookup = TRUE]
    IN
    IF found.error # "" THEN Stop(EmptyDict, found.error, looked)
    ELSE IF day # "none" /\ partregion = None THEN Stop(EmptyDict, "TypeError", looked)
    ELSE IF day # "none" /\ "Pollen" \notin DOMAIN partregion[1]
         THEN Stop(EmptyDict, "KeyError", looked)
    ELSE
    LET calc == IF day = "none" THEN [error |-> "", level |-> -1]
                ELSE calculate_level(partregion[1]["Pollen"], category, day)
        reached == [looked EXCEPT !.day = day]
        e1 == Put(EmptyDict, "level", calc.level)
        e2 == Put(e1, "last_update", doc["last_update"])
        e3 == Put(e2, "next_update", doc["next_update"])
    IN
    IF calc.error # "" THEN Stop(EmptyDict, calc.error, reached)
    ELSE IF partregion = None THEN Stop(e3, "TypeError", reached)
    ELSE IF "region_name" \notin DOMAIN partregion[1] THEN Stop(e3, "KeyError", reached)
    ELSE
    LET e4 == Put(e3, "region_name", partregion[1]["region_name"])
    IN
    IF "partregion_name" \notin DOMAIN partregion[1] THEN Stop(e4, "KeyError", reached)
    ELSE Stop(Put(e4, "partregion_name", partregion[1]["partregion_name"]), "", reached)

-----------------------------------------------------------------------------
(* The environment: the clock and the documents the feed can serve *)

MinutesPerDay == 24 * 60
ClockStart == 23 * 60 + 30
ClockStep == MinutesPerDay \div 48

\* datetime.today().date()
Today(t) == t \div MinutesPerDay

PartregionIds == {1, 2}
DayKeys == {"today", "tomorrow", "dayafter_to"}
Offsets == -1..3      \* today's date minus the document's last_update date

Bands(a, b, c) == [today |-> a, tomorrow |-> b, dayafter_to |-> c]

Forecasts ==
    << [Ambrosia |-> Bands("0", "0-1", "1"),
        Graeser  |-> Bands("1-2", "2", "2-3"),
        Beifuss  |-> Bands("1", "x", "0"),
        Birke    |-> Bands("3", "0-1", "0"),
        Erle     |-> Bands("0", "1-2", "x"),
        Esche    |-> Bands("0", "x", "0"),
        Hasel    |-> Bands("0", "0", "0"),
        Roggen   |-> Bands("0", "0", "x")],
       [Ambrosia |-> Bands("x", "3", "2"),
        Graeser  |-> Bands("0", "x", "3"),
        Beifuss  |-> Bands("x", "2-3", "2"),
        Birke    |-> Bands("x", "0", "1"),
        Erle     |-> Bands("x", "2", "x"),
        Esche    |-> Bands("x", "x", "0-1"),
        Hasel    |-> Bands("x", "1", "0"),
        Roggen   |-> Bands("x", "0", "0")] >>

PartregionNames == <<"Allgaeu", "Donau">>

Region(id, k) ==
    [partregion_id |-> id, region_name |-> "Bayern",
     partregion_name |-> PartregionNames[k], Pollen |-> Forecasts[k]]

GoodRegions == {Region(id, k) : id \in PartregionIds, k \in 1..Len(Forecasts)}

\* Region(1, 1) with one expected field, species or day-key missing
BrokenRegions ==
    LET r == Region(1, 1)
    IN  {Drop(r, k) : k \in DOMAIN r}
        \cup {[r EXCEPT !.Pollen = Drop(@, s)] : s \in {"Ambrosia", "Graeser", "Birke"}}
        \cup {[r EXCEPT !.Pollen = [s \in DOMAIN @ |-> Drop(@[s], d)]] : d \in DayKeys}

GoodContents == UNION {[1..n -> GoodRegions] : n \in 0..MaxRegions}

BrokenContents ==
    UNION {{<<b>>, <<b, Region(2, 2)>>, <<Region(2, 2), b>>} : b \in BrokenRegions}

Document(day, content) ==
    [last_update |-> [day |-> day, minute |-> 11 * 60],
     next_update |-> [day |-> day + 1, minute |-> 11 * 60],
     content |-> content]

Documents(date) ==
    LET whole == {Document(date - o, c) :
                     o \in Offsets, c \in GoodContents \cup BrokenContents}
        base == {Document(date - o, <<Region(1, 1)>>) : o \in Offsets}
    IN  whole \cup {Drop(d, k) : d \in base, k \in {"last_update", "next_update", "content"}}
              \cup {EmptyDict}

Responses(date) ==
    {[kind |-> "ok", json |-> d] : d \in Documents(date)}
    \cup {[kind |-> k, json |-> EmptyDict] : k \in FailureKinds}

-----------------------------------------------------------------------------
(* Initial state: DwdPollenSensor.__init__, Throttle never run *)

Init ==
    /\ partregion_id \in PartregionIds
    /\ pollen_type \in POLLEN_TYPES
    /\ state = None
    /\ attributes = EmptyDict
    /\ pc = "idle"
    /\ result = None
    /\ exposure = EmptyDict
    /\ today = Today(ClockStart)
    /\ called = NoCalls
    /\ outcome = "none"
    /\ fetched = "none"
    /\ last_call = "none"
    /\ last_run = None
    /\ now = ClockStart
    /\ writes = 0

-----------------------------------------------------------------------------
(* The Throttle wrapper around update() *)

\* The wrapper's lock is held exactly while a body runs
Locked == pc # "idle"

\* force (never run) or utcnow() - throttle[1] > min_time
Due == IF last_run = None THEN TRUE ELSE now - last_run[1] > MIN_TIME_BETWEEN_UPDATES

config == <<partregion_id, pollen_type>>
locals == <<result, exposure, today, called, fetched>>
snapshot == <<state, attributes>>

\* A call that gets the lock and is due: the body of update() starts
Tick ==
    /\ ~Locked
    /\ Due
    /\ pc' = "clear_state"
    /\ last_call' = "run"
    /\ outcome' = "running"
    /\ result' = None
    /\ exposure' = EmptyDict
    /\ today' = Today(now)      \* not yet assigned; line 128 assigns it
    /\ called' = NoCalls
    /\ fetched' = "none"
    /\ writes' = 0
    /\ UNCHANGED <<config, snapshot, last_run, now>>

\* A call while a body runs: the lock is not acquired, the wrapper returns None
TickBusy ==
    /\ Locked
    /\ last_call' = "busy"
    /\ UNCHANGED <<config, snapshot, pc, locals, outcome, last_run, now, writes>>

\* A call that gets the lock too early: the wrapper returns None
TickEarly ==
    /\ ~Locked
    /\ ~Due
    /\ last_call' = "early"
    /\ UNCHANGED <<config, snapshot, pc, locals, outcome, last_run, now, writes>>

\* The body returned: the wrapper stamps the run and releases the lock
Finish ==
    /\ pc = "finish"
    /\ pc' = "idle"
    /\ outcome' = "returned"
    /\ last_run' = Some(now)
    /\ UNCHANGED <<config, snapshot, locals, last_call, now, writes>>

\* Time passes between calls, and while the HTTP request is outstanding
Advance ==
    /\ pc \in {"idle", "fetch"}
    /\ now + ClockStep <= ClockStart + MaxClockSteps * ClockStep
    /\ now' = now + ClockStep
    /\ UNCHANGED <<config, snapshot, pc, locals, outcome, last_call, last_run, writes>>

-----------------------------------------------------------------------------
(* The body of update(), one step per visible assignment *)

Changed(s, a) == IF <<s, a>> # snapshot THEN 1 ELSE 0

\* line 120: self._state = None
ClearState ==
    /\ pc = "clear_state"
    /\ state' = None
    /\ writes' = writes + Changed(None, attributes)
    /\ pc' = "clear_attributes"
    /\ UNCHANGED <<config, attributes, locals, outcome, last_call, last_run, now>>

\* update() without line 121: the attributes of the last refresh stay
ClearAttributesSkipped ==
    /\ pc = "clear_attributes"
    /\ pc' = "fetch"
    /\ UNCHANGED <<config, snapshot, locals, outcome, last_call, last_run, now, writes>>

\* line 121: self._attributes = {}
ClearAttributes ==
    /\ pc = "clear_attributes"
    /\ attributes' = EmptyDict
    /\ writes' = writes + Changed(state, EmptyDict)
    /\ pc' = "fetch"
    /\ UNCHANGED <<config, state, locals, outcome, last_call, last_run, now>>

\* line 123: result = self._api.get_exposure()
Fetch ==
    /\ pc = "fetch"
    /\ \E response \in Responses(Today(now)) :
          /\ result' = get_exposure(response)
          /\ fetched' = response.kind
    /\ pc' = "resolve"
    /\ UNCHANGED <<config, snapshot, exposure, today, called, outcome, last_call, last_run, now,
                   writes>>

\* lines 126-167: the try block fills `exposure`; a KeyError is caught and
\* logged, any other exception leaves update() and the wrapper's finally
\* clause releases the lock without stamping the run
Resolve ==
    /\ pc = "resolve"
    /\ IF Truthy(result)
       THEN LET t == TryBlock(result[1], partregion_id, pollen_type, Today(now))
            IN  /\ today' = Today(now)
                /\ exposure' = t.exposure
                /\ called' = t.called
                /\ IF t.error = "TypeError"
                   THEN pc' = "idle" /\ outcome' = "raised"
                   ELSE pc' = "set_state" /\ outcome' = outcome
       ELSE /\ exposure' = EmptyDict
            /\ today' = today
            /\ called' = NoCalls
            /\ pc' = "set_state"
            /\ outcome' = outcome
    /\ UNCHANGED <<config, snapshot, result, fetched, last_call, last_run, now, writes>>

\* lines 169-171: if exposure: if exposure["level"] >= 0: self._state = round(...)
SetState ==
    /\ pc = "set_state"
    /\ IF exposure = EmptyDict
       THEN pc' = "finish" /\ UNCHANGED <<state, writes>>
       ELSE /\ pc' = "set_attribute_1"
            /\ IF exposure["level"] >= 0
               THEN /\ state' = Some(Percentage(exposure["level"]))
                    /\ writes' = writes + Changed(state', attributes)
               ELSE UNCHANGED <<state, writes>>
    /\ UNCHANGED <<config, attributes, locals, outcome, last_call, last_run, now>>

\* lines 172-179, in order: the attribute set and the key of `exposure` read ("" for none)
AttributeSteps ==
    << <<ATTR_DESCRIPTION, "level">>,
       <<ATTR_LAST_UPDATE, "last_update">>,
       <<ATTR_NEXT_UPDATE, "next_update">>,
       <<ATTR_REGION_NAME, "region_name">>,
       <<ATTR_PARTREGION_NAME, "partregion_name">>,
       <<ATTR_ATTRIBUTION, "">> >>

AttributeValue(i) ==
    IF i = 1 THEN get_description(exposure["level"])
    ELSE IF i = Len(AttributeSteps) THEN ATTRIBUTION
    ELSE exposure[AttributeSteps[i][2]]

AttributePc(i) == CASE i = 1 -> "set_attribute_1" [] i = 2 -> "set_attribute_2"
                    [] i = 3 -> "set_attribute_3" [] i = 4 -> "set_attribute_4"
                    [] i = 5 -> "set_attribute_5" [] i = 6 -> "set_attribute_6"
                    [] OTHER -> "finish"

\* one of lines 172-179; exposure[key] of a key the try block did not reach
\* is a KeyError outside the try block, which leaves update()
SetAttribute(i) ==
    /\ pc = AttributePc(i)
    /\ LET key == AttributeSteps[i][2]
       IN  IF key # "" /\ key \notin DOMAIN exposure
           THEN /\ pc' = "idle"
                /\ outcome' = "raised"
                /\ UNCHANGED <<attributes, writes>>
           ELSE /\ attributes' = Put(attributes, AttributeSteps[i][1], AttributeValue(i))
                /\ writes' = writes + Changed(state, attributes')
                /\ pc' = AttributePc(i + 1)
                /\ outcome' = outcome
    /\ UNCHANGED <<config, state, locals, last_call, last_run, now>>

\* The forecasts for the level calculation: the species of the category carry
\* any bands on the selected day; every other entry carries "3".  A category
\* of one species ranges over every band of the table and an unrecognized
\* one ("x"), a category of several species over five of these.
AllBands == DOMAIN level_mapping \cup {"x"}
SomeBands == {"0", "0-1", "2", "3", "x"}
AllSpecies == DOMAIN Forecasts[1]

SpeciesIn(category) ==
    LET species == Get(pollen_mapping, category, << >>)
    IN  {species[i] : i \in 1..Len(species)}

LevelForecast(f, day) ==
    [s \in AllSpecies |->
        [d \in DayKeys |-> IF d = day /\ s \in DOMAIN f THEN f[s] ELSE "3"]]

LevelDocuments(category, date) ==
    {Document(date - o,
              <<[Region(1, 1) EXCEPT !.Pollen =
                    LevelForecast(f, DayKey([day |-> date - o], date))]>>) :
        o \in 0..2,
        f \in [SpeciesIn(category) ->
                 IF Cardinality(SpeciesIn(category)) > 1 THEN SomeBands ELSE AllBands]}

\* update() of a sensor of any category, at the point where get_exposure()
\* has just returned one of these documents
InitLevel ==
    /\ partregion_id = 1
    /\ pollen_type \in POLLEN_TYPES \cup {"weed"}
    /\ state = None
    /\ attributes = EmptyDict
    /\ pc = "resolve"
    /\ result \in {Some(d) : d \in LevelDocuments(pollen_type, Today(ClockStart))}
    /\ exposure = EmptyDict
    /\ today = Today(ClockStart)
    /\ called = NoCalls
    /\ outcome = "running"
    /\ fetched = "ok"
    /\ last_call = "run"
    /\ last_run = None
    /\ now = ClockStart
    /\ writes = 0

Next ==
    \/ Tick
    \/ TickBusy
    \/ TickEarly
    \/ Advance
    \/ ClearState
    \/ ClearAttributes
    \/ Fetch
    \/ Resolve
    \/ SetState
    \/ \E i \in 1..Len(AttributeSteps) : SetAttribute(i)
    \/ Finish

Spec == Init /\ [][Next]_vars

NextLevel == Resolve

SpecLevel == InitLevel /\ [][NextLevel]_vars

-----------------------------------------------------------------------------
(* Vocabulary of the properties *)

AllKeys == {ATTR_DESCRIPTION, ATTR_LAST_UPDATE, ATTR_NEXT_UPDATE, ATTR_REGION_NAME,
            ATTR_PARTREGION_NAME, ATTR_ATTRIBUTION}

\* update() has returned normally
Returned == pc = "idle" /\ outcome = "returned"

\* the sensor is unavailable: no numeric state, no attributes
Unavailable == state = None /\ attributes = EmptyDict

\* the fetched document of the last update(), when the fetch gave one
HasDocument == IF result = None THEN FALSE ELSE DOMAIN result[1] # {}
TheDocument == result[1]

TopLevelKeys == {"last_update", "next_update", "content"}

\* positions in `content` of the sub-regions with the sensor's id
Matches(doc) ==
    {i \in 1..Len(doc["content"]) :
        /\ "partregion_id" \in DOMAIN doc["content"][i]
        /\ doc["content"][i]["partregion_id"] = partregion_id}

FirstMatch(doc) ==
    doc["content"][CHOOSE i \in Matches(doc) : \A j \in Matches(doc) : i <= j]

\* rank of a band in the order "0" < "0-1" < ... < "3"; -1 for any other
BandOrder == <<"0", "0-1", "1", "1-2", "2", "2-3", "3">>
Rank(band) ==
    IF \E i \in 1..Len(BandOrder) : BandOrder[i] = band
    THEN (CHOOSE i \in 1..Len(BandOrder) : BandOrder[i] = band) - 1
    ELSE -1

SpeciesOf(category) ==
    CASE category = "ambrosia" -> {"Ambrosia"}
      [] category = "grass" -> {"Graeser"}
      [] category = "tree" -> {"Beifuss", "Birke", "Erle", "Esche", "Hasel", "Roggen"}
      [] OTHER -> {}

\* the worst rank among the category's species on a day, -1 for no species
WorstRank(pollen, category, day) ==
    LET ranks == {Rank(pollen[s][day]) : s \in SpeciesOf(category)}
    IN  IF ranks = {} THEN -1 ELSE CHOOSE m \in ranks : \A r \in ranks : r <= m

-----------------------------------------------------------------------------
(* C1 *)

\* the document has the three top-level fields, every sub-region has a
\* partregion_id, and none has the sensor's
NoSuchPartregion ==
    /\ HasDocument
    /\ TopLevelKeys \subseteq DOMAIN TheDocument
    /\ \A i \in 1..Len(TheDocument["content"]) :
          "partregion_id" \in DOMAIN TheDocument["content"][i]
    /\ Matches(TheDocument) = {}

\* C1: when the fetched document holds no sub-region with the sensor's
\* partregion_id, update() does not crash: it returns normally, without a
\* level calculation, and the sensor has no numeric state.
C1_MissingPartregionReturns ==
    (pc = "idle" /\ outcome # "none" /\ NoSuchPartregion)
        => (outcome = "returned" /\ called.day = "none" /\ state = None)

-----------------------------------------------------------------------------
(* C2 *)

\* the requested sub-region, where the document has one
HasRequested(doc) == "content" \in DOMAIN doc /\ Matches(doc) # {}

\* the document lacks a field that update() expects of it: a top-level field,
\* a field of the requested sub-region, a species of the sensor's category or
\* the selected day-key of such a species
LacksField(doc, date) ==
    \/ ~(TopLevelKeys \subseteq DOMAIN doc)
    \/ /\ HasRequested(doc)
       /\ LET r == FirstMatch(doc)
              day == DayKey(doc["last_update"], date)
          IN  \/ ~({"Pollen", "region_name", "partregion_name"} \subseteq DOMAIN r)
              \/ \E sp \in SpeciesOf(pollen_type) :
                    \/ sp \notin DOMAIN r["Pollen"]
                    \/ day # "none" /\ day \notin DOMAIN r["Pollen"][sp]

RequestedButIncomplete ==
    /\ HasDocument
    /\ \A i \in 1..Len(Get(TheDocument, "content", << >>)) :
          "partregion_id" \in DOMAIN TheDocument["content"][i]
    /\ "content" \in DOMAIN TheDocument => HasRequested(TheDocument)
    /\ LacksField(TheDocument, today)

\* C2: when the document contains the requested sub-region but lacks an
\* expected field, update() does not raise and leaves the sensor unavailable
\* (no numeric state, empty attributes), never partially populated.
C2_MissingFieldRecovered ==
    (pc = "idle" /\ outcome # "none" /\ RequestedButIncomplete)
        => (outcome = "returned" /\ Unavailable)

-----------------------------------------------------------------------------
(* C3 *)

\* C3: a reader interleaved with update() sees the whole previous snapshot or
\* the whole new one: the body changes <<state, attributes>> in at most one
\* step, and the attributes never hold only some of their keys nor a state
\* without attributes.
C3_AtomicReplacement ==
    /\ writes <= 1
    /\ DOMAIN attributes \in {{}, AllKeys}
    /\ state # None => attributes # EmptyDict

-----------------------------------------------------------------------------
(* C4 *)

\* C4: when the fetch fails (transport error, bad status, invalid JSON),
\* get_exposure() returns None, update() reaches no lookup and no level
\* calculation and returns, and the sensor is unavailable whatever the
\* previous snapshot was.
C4_FailedFetchClears ==
    (fetched \in {"transport", "status", "invalid_json"} /\ pc \in {"set_state", "finish", "idle"})
        => /\ result = None
           /\ outcome # "raised"
           /\ called = [lookup |-> FALSE, day |-> "none"]
           /\ exposure = EmptyDict
           /\ Unavailable

\* a failed fetch after a refresh that had left a snapshot: the body wiped it
C4_Witness ==
    /\ Returned
    /\ fetched \in {"transport", "status", "invalid_json"}
    /\ writes > 0
    /\ Unavailable

-----------------------------------------------------------------------------
(* C5 *)

\* a call of update() reaches the wrapper in this step
CallStep == last_call' # last_call \/ (pc = "idle" /\ pc' # "idle")

\* the call comes within 60 minutes of the last completed refresh
TooEarly == IF last_run = None THEN FALSE ELSE now - last_run[1] <= 60

\* C5: the body of update() never starts while a body is running nor within
\* 60 minutes of the last completed refresh; a call that comes then fetches
\* nothing and leaves the snapshot as it is.
C5_ThrottledRefresh ==
    [][ /\ (pc = "idle" /\ pc' # "idle") => ~TooEarly
        /\ (pc # "idle" /\ pc' # pc) => pc' # "clear_state"
        /\ (CallStep /\ (pc # "idle" \/ TooEarly))
              => UNCHANGED <<state, attributes, pc, result, fetched, exposure>> ]_vars

\* a call exactly 60 minutes after a completed refresh was turned away
C5_Witness ==
    /\ Returned
    /\ last_call = "early"
    /\ IF last_run = None THEN FALSE ELSE now - last_run[1] = 60

-----------------------------------------------------------------------------
(* C6 *)

\* the document has every top-level field and a requested sub-region with its names
Resolvable ==
    /\ HasDocument
    /\ TopLevelKeys \subseteq DOMAIN TheDocument
    /\ \A i \in 1..Len(TheDocument["content"]) :
          "partregion_id" \in DOMAIN TheDocument["content"][i]
    /\ Matches(TheDocument) # {}
    /\ {"region_name", "partregion_name"} \subseteq DOMAIN FirstMatch(TheDocument)

\* today's date minus the date of the document's last_update
DocOffset == today - TheDocument["last_update"].day

KeyOf(offset) ==
    CASE offset = 0 -> "today" [] offset = 1 -> "tomorrow" [] offset = 2 -> "dayafter_to"
      [] OTHER -> "none"

\* the forecast of the sub-region names every species of the category on a day
Forecasts_Has(r, day) ==
    /\ "Pollen" \in DOMAIN r
    /\ \A sp \in SpeciesOf(pollen_type) :
          sp \in DOMAIN r["Pollen"] /\ day \in DOMAIN r["Pollen"][sp]

\* the attributes carry the document's timestamps and the sub-region's names
CarriesMetadata(r) ==
    /\ DOMAIN attributes = AllKeys
    /\ attributes[ATTR_LAST_UPDATE] = TheDocument["last_update"]
    /\ attributes[ATTR_NEXT_UPDATE] = TheDocument["next_update"]
    /\ attributes[ATTR_REGION_NAME] = r["region_name"]
    /\ attributes[ATTR_PARTREGION_NAME] = r["partregion_name"]

\* C6: the day-key depends only on the offset of last_update from the current
\* date: 0 selects "today", 1 "tomorrow", 2 "dayafter_to"; for any other offset
\* the level is -1 and no band is read, so the snapshot carries the timestamps
\* and the names but no numeric state.
C6_DayKeyByOffset ==
    (pc = "idle" /\ outcome # "none" /\ Resolvable) =>
        LET r == FirstMatch(TheDocument)
            day == KeyOf(DocOffset)
        IN  IF day # "none"
            THEN /\ "Pollen" \in DOMAIN r => called.day = day
                 /\ Forecasts_Has(r, day) =>
                       /\ outcome = "returned"
                       /\ "level" \in DOMAIN exposure
                       /\ exposure["level"] = WorstRank(r["Pollen"], pollen_type, day)
                       /\ CarriesMetadata(r)
            ELSE /\ called.day = "none"
                 /\ outcome = "returned"
                 /\ "level" \in DOMAIN exposure
                 /\ exposure["level"] = -1
                 /\ state = None
                 /\ CarriesMetadata(r)

\* a document two days old was resolved with its "dayafter_to" bands
C6_Witness ==
    /\ Returned
    /\ Resolvable
    /\ DocOffset = 2
    /\ called.day = "dayafter_to"
    /\ state # None
    /\ DOMAIN attributes = AllKeys

-----------------------------------------------------------------------------
(* C7 *)

\* C7: the level is the largest rank among the category's species on the
\* selected day-key, with the bands "0" .. "3" ranked 0..6 in order and any
\* other band ranked -1; a category of no species has level -1.
C7_LevelIsWorstRank ==
    (pc = "set_state" /\ Resolvable /\ KeyOf(DocOffset) # "none") =>
        /\ "level" \in DOMAIN exposure
        /\ exposure["level"] =
              WorstRank(FirstMatch(TheDocument)["Pollen"], pollen_type, KeyOf(DocOffset))

\* tree with Beifuss "0-1", Birke "3", Erle "0" today has level 6
C7_Witness ==
    /\ pc = "set_state"
    /\ pollen_type = "tree"
    /\ Resolvable
    /\ DocOffset = 0
    /\ LET p == FirstMatch(TheDocument)["Pollen"]
       IN  p["Beifuss"]["today"] = "0-1" /\ p["Birke"]["today"] = "3" /\ p["Erle"]["today"] = "0"
    /\ exposure["level"] = 6

-----------------------------------------------------------------------------
(* C8 *)

PercentageTable == <<0, 17, 33, 50, 67, 83, 100>>

\* C8: after a successful resolution the numeric state is present exactly
\* when the level is >= 0, and is then 0, 17, 33, 50, 67, 83, 100 for the
\* levels 0..6.
C8_PercentageOfLevel ==
    (Returned /\ exposure # EmptyDict) =>
        /\ "level" \in DOMAIN exposure
        /\ exposure["level"] \in -1..6
        /\ state # None <=> exposure["level"] >= 0
        /\ exposure["level"] >= 0 => state = <<PercentageTable[exposure["level"] + 1]>>

\* level 1 gave 17 percent
C8_Witness ==
    /\ Returned
    /\ exposure # EmptyDict
    /\ exposure["level"] = 1
    /\ state = <<17>>

-----------------------------------------------------------------------------
(* C9 *)

\* every sub-region of the document is whole and several have the sensor's id
Duplicated ==
    /\ HasDocument
    /\ TopLevelKeys \subseteq DOMAIN TheDocument
    /\ \A i \in 1..Len(TheDocument["content"]) :
          /\ {"partregion_id", "region_name", "partregion_name"}
                \subseteq DOMAIN TheDocument["content"][i]
          /\ Forecasts_Has(TheDocument["content"][i], "today")
          /\ Forecasts_Has(TheDocument["content"][i], "tomorrow")
          /\ Forecasts_Has(TheDocument["content"][i], "dayafter_to")
    /\ Cardinality(Matches(TheDocument)) >= 2

\* C9: with several sub-regions of the requested id, the snapshot is that of
\* the first of them in content order.
C9_FirstMatchWins ==
    (pc = "idle" /\ outcome # "none" /\ Duplicated) =>
        LET r == FirstMatch(TheDocument)
            day == KeyOf(DocOffset)
            level == IF day = "none" THEN -1 ELSE WorstRank(r["Pollen"], pollen_type, day)
        IN  /\ outcome = "returned"
            /\ "level" \in DOMAIN exposure
            /\ exposure["level"] = level
            /\ CarriesMetadata(r)
            /\ attributes[ATTR_DESCRIPTION] = get_description(level)

\* a later sub-region of the same id with another name and another level was passed over
C9_Witness ==
    /\ Returned
    /\ Duplicated
    /\ KeyOf(DocOffset) # "none"
    /\ \E i \in Matches(TheDocument) :
          LET later == TheDocument["content"][i]
          IN  /\ later["partregion_name"] # attributes[ATTR_PARTREGION_NAME]
              /\ WorstRank(later["Pollen"], pollen_type, KeyOf(DocOffset)) # exposure["level"]

-----------------------------------------------------------------------------
(* C10 *)

\* update() has been called and is over, by a return or by an exception
UpdateOver == pc = "idle" /\ outcome \in {"returned", "raised"}

====
